---- MODULE Spec2Model ----
(***************************************************************************)
(* Identity resolution and cross-reference store of openparliament         *)
(* (parliament/core/models.py): party aliases (InternalXref), politician   *)
(* alternate names and external IDs (PoliticianInfo), the three-stage      *)
(* PoliticianManager.get_by_name and the ourcommons.ca ID discovery.       *)
(*                                                                         *)
(* Strings are sequences of one-character strings, so that strip(),        *)
(* lower(), normalizeName() and the Stage 3 regular expression are         *)
(* computed, not assumed.  A database table is a bag of rows (Django sets  *)
(* no unique constraint on InternalXref or PoliticianInfo) or, where       *)
(* duplicates cannot change any query of the engine, a set.                *)
(***************************************************************************)
EXTENDS Naturals, Integers, Sequences, FiniteSets, Bags, TLC

VARIABLES
    politicians,  \* ids of the saved Politician rows
    parties,      \* ids of the saved Party rows
    members,      \* ElectedMember rows: [politician, riding, party, sessions]
    info,         \* PoliticianInfo rows, a bag of [politician, schema, value]
    xref,         \* InternalXref rows, a bag of [schema, text_value, target_id]
    last,         \* the last call made and what it returned or raised
    pc,           \* concurrent callers: where each one stands
    loc           \* concurrent callers: their local variables

vars == <<politicians, parties, members, info, xref, last, pc, loc>>

-----------------------------------------------------------------------------
(* Bounds of the model *)

\* ElectedMember rows the membership table holds at most
MaxMembers == 2

-----------------------------------------------------------------------------
(* Characters and strings *)

Whitespace == {" "}
AsciiUpper == {"A", "D", "J", "L", "N", "P", "R"}
AsciiLower == {"a", "b", "d", "e", "i", "j", "l", "n", "o", "p", "r", "y"}
AsciiDigit == {"0", "1", "2", "3", "4", "5", "6", "7", "8", "9"}

\* unicode.lower() on one character
LowerChar(c) ==
    CASE c = "A" -> "a" [] c = "D" -> "d" [] c = "J" -> "j" [] c = "L" -> "l"
      [] c = "N" -> "n" [] c = "P" -> "p" [] c = "R" -> "r" [] OTHER -> c

\* the base letter of an accented one
StripAccentChar(c) ==
    CASE c = "é" -> "e" [] c = "ó" -> "o" [] OTHER -> c

MapStr(s, F(_)) == [i \in 1..Len(s) |-> F(s[i])]

lower(s) == MapStr(s, LowerChar)

RECURSIVE lstrip(_)
lstrip(s) == IF s # <<>> /\ Head(s) \in Whitespace THEN lstrip(Tail(s)) ELSE s

RECURSIVE rstrip(_)
rstrip(s) ==
    IF s # <<>> /\ s[Len(s)] \in Whitespace THEN rstrip(SubSeq(s, 1, Len(s) - 1)) ELSE s

\* str.strip()
strip(s) == rstrip(lstrip(s))

\* runs of whitespace become one space
RECURSIVE collapse(_)
collapse(s) ==
    IF s = <<>> THEN <<>>
    ELSE IF Head(s) \in Whitespace
         THEN <<" ">> \o collapse(lstrip(s))
         ELSE <<Head(s)>> \o collapse(Tail(s))

\* parsetools.normalizeName: lower case, no diacritics, whitespace collapsed
\* and trimmed
normalizeName(s) == collapse(strip(lower(MapStr(s, StripAccentChar))))

\* unicode(n) for a non-negative integer
DigitChar(d) ==
    CASE d = 0 -> "0" [] d = 1 -> "1" [] d = 2 -> "2" [] d = 3 -> "3" [] d = 4 -> "4"
      [] d = 5 -> "5" [] d = 6 -> "6" [] d = 7 -> "7" [] d = 8 -> "8" [] OTHER -> "9"

RECURSIVE unicode(_)
unicode(n) == IF n < 10 THEN <<DigitChar(n)>> ELSE unicode(n \div 10) \o <<DigitChar(n % 10)>>

\* re.search(r'\s([A-Z][\w-]+)$', s): the text after the last whitespace of
\* s, when a whitespace precedes it, it opens with an ASCII capital and goes
\* on with one or more of [a-zA-Z0-9_-]; <<>> when the pattern does not match
WordChars == AsciiUpper \cup AsciiLower \cup AsciiDigit \cup {"_"}

LastSpace(s) ==
    LET at == {i \in 1..Len(s) : s[i] \in Whitespace}
    IN  IF at = {} THEN 0 ELSE CHOOSE i \in at : \A j \in at : j <= i

lastname_match(s) ==
    LET i == LastSpace(s)
        tail == SubSeq(s, i + 1, Len(s))
    IN  IF /\ i > 0
           /\ Len(tail) >= 2
           /\ tail[1] \in AsciiUpper
           /\ \A j \in 2..Len(tail) : tail[j] \in WordChars \cup {"-"}
        THEN tail
        ELSE <<>>

-----------------------------------------------------------------------------
(* Reference data *)

None == 0
NoName == <<>>
NoSession == "None"
NoRiding == "None"

Sessions == {"S1", "S2"}
Ridings == {"D1", "D2"}

PolIds == {1, 2}
PartyIds == {1, 2}

\* Politician.name and Politician.name_family of the two Politician objects
s_JonDay == <<"J", "o", "n", " ", "D", "a", "y">>
s_JoDay == <<"J", "o", " ", "D", "a", "y">>
s_Day == <<"D", "a", "y">>
PolName(p) == IF p = 1 THEN s_JonDay ELSE s_JoDay
PolFamily(p) == s_Day

\* Party.name_en and Party.name_fr of the two Party objects
s_Lib == <<"L", "i", "b">>
s_NDP == <<"N", "D", "P">>
s_NPD == <<"N", "P", "D">>
PartyNameEn(t) == IF t = 1 THEN s_Lib ELSE s_NDP
PartyNameFr(t) == IF t = 1 THEN <<>> ELSE s_NPD

-----------------------------------------------------------------------------
(* Tables *)

FilterBag(B, Keep(_)) == [r \in {x \in DOMAIN B : Keep(x)} |-> B[r]]
AddRow(B, r) == B (+) SetToBag({r})
Rows(B) == BagCardinality(B)

InfoRow(p, schema, value) == [politician |-> p, schema |-> schema, value |-> value]
XrefRow(schema, text, target) == [schema |-> schema, text_value |-> text, target_id |-> target]

\* PoliticianInfo.objects.filter(schema=..., value=...)
InfoByValue(I, schema, value) ==
    FilterBag(I, LAMBDA r : r.schema = schema /\ r.value = value)

\* politician.politicianinfo_set.filter(schema=...)
InfoOf(I, p, schema) ==
    FilterBag(I, LAMBDA r : r.politician = p /\ r.schema = schema)

\* InternalXref.objects.filter(schema='party_names', text_value=...)
PartyNames(X, text) ==
    FilterBag(X, LAMBDA r : r.schema = "party_names" /\ r.text_value = text)

-----------------------------------------------------------------------------
(* Party and its aliases (InternalXref, schema 'party_names') *)

PartyAddAlternateName_NoCheck(X, t, name) ==
    LET key == lower(strip(name))
        x == PartyNames(X, key)
    IN  IF \A r \in DOMAIN x : r.target_id # t
        THEN {[exc |-> "ok", xref |-> AddRow(X, XrefRow("party_names", key, t))]}
        ELSE {[exc |-> "ok", xref |-> X]}

\* Party.add_alternate_name: the outcomes the call can have.  The rows come
\* back from an unordered query, so x[0] is any of them.
PartyAddAlternateName(X, t, name) ==
    LET key == lower(strip(name))
        x == PartyNames(X, key)
    IN  IF Rows(x) = 0
        THEN {[exc |-> "ok", xref |-> AddRow(X, XrefRow("party_names", key, t))]}
        ELSE {[exc |-> IF first.target_id # t THEN "Exception" ELSE "ok", xref |-> X] :
                 first \in DOMAIN x}

\* Party.save: name_fr defaults to name_en, the row is written, then both
\* names are added as aliases; the first failure ends the call
PartySave(X, t) ==
    LET name_en == PartyNameEn(t)
        name_fr == IF PartyNameFr(t) = <<>> THEN name_en ELSE PartyNameFr(t)
        afterEn == PartyAddAlternateName(X, t, name_en)
    IN  UNION {IF r.exc # "ok" THEN {r} ELSE PartyAddAlternateName(r.xref, t, name_fr) :
                  r \in afterEn}

\* a delete that leaves the aliases behind
PartyDeleteXref_Kept(X, t) == X

\* Party.delete: the aliases of the party go, then the row and, by the
\* cascade of ElectedMember.party, its memberships
PartyDeleteXref(X, t) ==
    FilterBag(X, LAMBDA r : ~(r.schema = "party_names" /\ r.target_id = t))

PartyDeleteMembers(M, t) == {m \in M : m.party # t}

\* PartyManager.get_by_name
PartyGetByName(X, P, name) ==
    LET x == PartyNames(X, lower(strip(name)))
    IN  IF Rows(x) = 0 THEN {[exc |-> "Party.DoesNotExist", party |-> None]}
        ELSE IF Rows(x) > 1 THEN {[exc |-> "Exception", party |-> None]}
        ELSE {IF first.target_id \in P
              THEN [exc |-> "ok", party |-> first.target_id]
              ELSE [exc |-> "Party.DoesNotExist", party |-> None] : first \in DOMAIN x}

-----------------------------------------------------------------------------
(* Politician and its key/value rows (PoliticianInfo) *)

\* Politician.alternate_names
alternate_names(I, p) == {r.value : r \in DOMAIN InfoOf(I, p, "alternate_name")}

SetInfoMultivalued_Create(I, p, key, value) ==
    [exc |-> "ok", info |-> AddRow(I, InfoRow(p, key, value))]

\* Politician.set_info_multivalued: get_or_create on (politician, schema, value)
SetInfoMultivalued(I, p, key, value) ==
    LET n == CopiesIn(InfoRow(p, key, value), I)
    IN  IF n = 0 THEN [exc |-> "ok", info |-> AddRow(I, InfoRow(p, key, value))]
        ELSE IF n = 1 THEN [exc |-> "ok", info |-> I]
        ELSE [exc |-> "MultipleObjectsReturned", info |-> I]

AddAlternateName_Raw(I, p, name) ==
    IF name \notin alternate_names(I, p)
    THEN SetInfoMultivalued(I, p, "alternate_name", name)
    ELSE [exc |-> "ok", info |-> I]

\* Politician.add_alternate_name
AddAlternateName(I, p, name) ==
    LET normname == normalizeName(name)
    IN  IF normname \notin alternate_names(I, p)
        THEN SetInfoMultivalued(I, p, "alternate_name", normname)
        ELSE [exc |-> "ok", info |-> I]

\* a save that writes the row of the politician alone
PoliticianSave_RowOnly(I, p) == [exc |-> "ok", info |-> I]

\* Politician.save: the row is written, then the display name is added as
\* an alternate name
PoliticianSave(I, p) == AddAlternateName(I, p, PolName(p))

\* set_info that reports success and writes nothing
SetInfo_Dropped(I, p, key, value, overwrite) == [exc |-> "ok", info |-> I]

\* Politician.set_info
SetInfo(I, p, key, value, overwrite) ==
    LET mine == InfoOf(I, p, key)
        others == FilterBag(I, LAMBDA r : ~(r.politician = p /\ r.schema = key))
    IN  IF Rows(mine) = 1 /\ ~overwrite
        THEN [exc |-> "ValueError", info |-> I]
        ELSE [exc |-> "ok", info |-> AddRow(others, InfoRow(p, key, value))]

-----------------------------------------------------------------------------
(* PoliticianManager.get_by_name *)

\* ElectedMember.objects.filter(politician=p) narrowed by the criteria given
MatchingMembers(M, p, session, riding, party) ==
    {m \in M : /\ m.politician = p
               /\ riding # NoRiding => m.riding = riding
               /\ session # NoSession => session \in m.sessions
               /\ party # None => m.party = party}

\* Stage 3's query.  The riding is narrowed by a second filter() call on the
\* multi-valued electedmember relation, which joins the table a second time.
LastNameMatches(P, M, lastname, session, riding) ==
    {p \in P :
        /\ PolFamily(p) = lastname
        /\ \E m \in M : m.politician = p /\ session \in m.sessions
        /\ riding # NoRiding => \E m \in M : m.politician = p /\ m.riding = riding}

\* a gate that looks at the session alone
Stage3Gate_SessionOnly(session, strictMatch) == session # NoSession

\* if session and not strictMatch
Stage3Gate(session, strictMatch) == session # NoSession /\ ~strictMatch

\* a fallback that saves the name whatever saveAlternate says
Stage3_AlwaysSave(P, M, I, name, session, riding, saveAlternate, strictMatch) ==
    LET lastname == lastname_match(strip(name))
        pols == LastNameMatches(P, M, lastname, session, riding)
        notFound == [exc |-> "DoesNotExist", pol |-> None, stage |-> 0, info |-> I]
    IN  IF ~Stage3Gate(session, strictMatch) \/ lastname = <<>> THEN notFound
        ELSE IF Cardinality(pols) > 1
        THEN IF riding # NoRiding
             THEN [exc |-> "Exception", pol |-> None, stage |-> 3, info |-> I]
             ELSE notFound
        ELSE IF Cardinality(pols) = 1
        THEN LET pol == CHOOSE p \in pols : TRUE
                 saved == AddAlternateName(I, pol, name)
             IN  IF saved.exc # "ok"
                 THEN [exc |-> saved.exc, pol |-> None, stage |-> 3, info |-> saved.info]
                 ELSE [exc |-> "ok", pol |-> pol, stage |-> 3, info |-> saved.info]
        ELSE notFound

\* the last-name fallback, lines 189-206
Stage3(P, M, I, name, session, riding, saveAlternate, strictMatch) ==
    LET lastname == lastname_match(strip(name))
        pols == LastNameMatches(P, M, lastname, session, riding)
        notFound == [exc |-> "DoesNotExist", pol |-> None, stage |-> 0, info |-> I]
    IN  IF ~Stage3Gate(session, strictMatch) \/ lastname = <<>> THEN notFound
        ELSE IF Cardinality(pols) > 1
        THEN IF riding # NoRiding
             THEN [exc |-> "Exception", pol |-> None, stage |-> 3, info |-> I]
             ELSE notFound
        ELSE IF Cardinality(pols) = 1
        THEN LET pol == CHOOSE p \in pols : TRUE
                 saved == IF saveAlternate THEN AddAlternateName(I, pol, name)
                          ELSE [exc |-> "ok", info |-> I]
             IN  IF saved.exc # "ok"
                 THEN [exc |-> saved.exc, pol |-> None, stage |-> 3, info |-> saved.info]
                 ELSE [exc |-> "ok", pol |-> pol, stage |-> 3, info |-> saved.info]
        ELSE notFound

\* the branch taken when no session, riding or party is given
NoCriteria_First(I, poss, election) ==
    IF election
    THEN [exc |-> "Exception", pol |-> None, stage |-> 1, info |-> I]
    ELSE [exc |-> "ok", pol |-> (CHOOSE r \in DOMAIN poss : TRUE).politician,
          stage |-> 1, info |-> I]

NoCriteria(I, poss, election) ==
    IF election
    THEN [exc |-> "Exception", pol |-> None, stage |-> 1, info |-> I]
    ELSE IF Rows(poss) > 1
    THEN [exc |-> "MultipleObjectsReturned", pol |-> None, stage |-> 1, info |-> I]
    ELSE [exc |-> "ok", pol |-> (CHOOSE r \in DOMAIN poss : TRUE).politician,
          stage |-> 1, info |-> I]

\* the rows of poss whose politician has any membership at all
ContextHits_AnyMember(M, poss, session, riding, party) ==
    FilterBag(poss, LAMBDA r : \E m \in M : m.politician = r.politician)

\* the rows of poss whose politician has a membership matching the criteria
ContextHits(M, poss, session, riding, party) ==
    FilterBag(poss, LAMBDA r : MatchingMembers(M, r.politician, session, riding, party) # {})

\* a loop that returns the first candidate that matches
Stage2_FirstMatch(I, hits, fallback) ==
    IF Rows(hits) >= 1
    THEN [exc |-> "ok", pol |-> (CHOOSE r \in DOMAIN hits : TRUE).politician,
          stage |-> 2, info |-> I]
    ELSE fallback

\* a loop after which no match is the end of the search
Stage2_NoFallThrough(I, hits, fallback) ==
    IF Rows(hits) > 1
    THEN [exc |-> "MultipleObjectsReturned", pol |-> None, stage |-> 2, info |-> I]
    ELSE IF Rows(hits) = 1
    THEN [exc |-> "ok", pol |-> (CHOOSE r \in DOMAIN hits : TRUE).politician,
          stage |-> 2, info |-> I]
    ELSE [exc |-> "DoesNotExist", pol |-> None, stage |-> 0, info |-> I]

\* the loop over poss when criteria are given: hits are the candidates with
\* a matching membership, fallback what the rest of get_by_name gives
Stage2(I, hits, fallback) ==
    IF Rows(hits) > 1
    THEN [exc |-> "MultipleObjectsReturned", pol |-> None, stage |-> 2, info |-> I]
    ELSE IF Rows(hits) = 1
    THEN [exc |-> "ok", pol |-> (CHOOSE r \in DOMAIN hits : TRUE).politician,
          stage |-> 2, info |-> I]
    ELSE fallback

GetByName(P, M, I, name, session, riding, election, party, saveAlternate, strictMatch) ==
    LET poss == InfoByValue(I, "alternate_name", normalizeName(name))
        hits == ContextHits(M, poss, session, riding, party)
        fallback == Stage3(P, M, I, name, session, riding, saveAlternate, strictMatch)
    IN  IF Rows(poss) >= 1
        THEN IF session # NoSession \/ riding # NoRiding \/ party # None
             THEN Stage2(I, hits, fallback)
             ELSE NoCriteria(I, poss, election)
        ELSE fallback

-----------------------------------------------------------------------------
(* Ridings and RidingManager.get_by_name.  A riding name is a sequence of    *)
(* words and separators; "--" is the dash that Riding.dashed_name shows as   *)
(* an em dash.  A slug is a sequence of lower-case words and hyphens.        *)

n_RichmondArthabaska == <<"Richmond", "--", "Arthabaska">>
n_RichmondArthabasca == <<"Richmond", "-", "Arthabasca">>
n_RichmondArthabatca == <<"Richmond", "-", "Arthabatca">>
n_MedicineHat == <<"Medicine", " ", "Hat">>
n_Nowhere == <<"Nowhere">>

\* the ridings that may be on record; Ridings are those that have members
RidingTable == Ridings \cup {"D3", "D4"}

RidingSlug(d) ==
    CASE d = "D1" -> <<"richmond", "-", "arthabaska">>
      [] d = "D2" -> <<"medicine", "-", "hat">>
      [] d = "D3" -> <<"westlock", "-", "st", "-", "paul">>
      [] d = "D4" -> <<"north", "-", "vancouver">>

LowerWord(w) ==
    CASE w = "Richmond" -> "richmond" [] w = "Richemond" -> "richemond"
      [] w = "Arthabaska" -> "arthabaska" [] w = "Arthabasca" -> "arthabasca"
      [] w = "Arthabatca" -> "arthabatca"
      [] w = "Medicine" -> "medicine" [] w = "Medecine" -> "medecine"
      [] w = "Hat" -> "hat" [] w = "Nowhere" -> "nowhere"
      [] w \in {" ", "--", "-"} -> "-"
      [] OTHER -> w

\* parsetools.slugify: lower case, separators become hyphens
slugify(name) == MapStr(name, LowerWord)

\* RidingManager.FIX_RIDING
FIX_RIDING ==
    (<<"richmond", "-", "arthabasca">>
        :> <<"richmond", "-", "arthabaska">>)
    @@ (<<"richemond", "-", "arthabaska">>
        :> <<"richmond", "-", "arthabaska">>)
    @@ (<<"battle", "-", "river">>
        :> <<"westlock", "-", "st", "-", "paul">>)
    @@ (<<"vancouver", "-", "est">>
        :> <<"vancouver", "-", "east">>)
    @@ (<<"calgary", "-", "ouest">>
        :> <<"calgary", "-", "west">>)
    @@ (<<"kitchener", "-", "wilmot", "-", "wellesley", "-", "woolwich">>
        :> <<"kitchener", "-", "conestoga">>)
    @@ (<<"carleton", "-", "orleans">>
        :> <<"ottawa", "-", "orleans">>)
    @@ (<<"frazer", "-", "valley", "-", "west">>
        :> <<"fraser", "-", "valley", "-", "west">>)
    @@ (<<"laval", "-", "ouest">>
        :> <<"laval", "-", "west">>)
    @@ (<<"medecine", "-", "hat">>
        :> <<"medicine", "-", "hat">>)
    @@ (<<"lac", "-", "st", "-", "jean">>
        :> <<"lac", "-", "saint", "-", "jean">>)
    @@ (<<"vancouver", "-", "north">>
        :> <<"north", "-", "vancouver">>)
    @@ (<<"laval", "-", "est">>
        :> <<"laval", "-", "east">>)
    @@ (<<"ottawa", "-", "ouest", "-", "nepean">>
        :> <<"ottawa", "-", "west", "-", "nepean">>)
    @@ (<<"cap", "-", "breton", "-", "highlands", "-", "canso">>
        :> <<"cape", "-", "breton", "-", "highlands", "-", "canso">>)
    @@ (<<"winnipeg", "-", "centre", "-", "sud">>
        :> <<"winnipeg", "-", "south", "-", "centre">>)
    @@ (<<"renfrew", "-", "nippissing", "-", "pembroke">>
        :> <<"renfrew", "-", "nipissing", "-", "pembroke">>)
    @@ (<<"the", "-", "battleford", "-", "meadow", "-", "lake">>
        :> <<"the", "-", "battlefords", "-", "meadow", "-", "lake">>)
    @@ (<<"esquimalt", "-", "de", "-", "fuca">>
        :> <<"esquimalt", "-", "juan", "-", "de", "-", "fuca">>)
    @@ (<<"sint", "-", "hubert">>
        :> <<"saint", "-", "hubert">>)

\* a lookup that does not consult the table of corrections
RidingLookup_NoFix(R, name) ==
    LET found == {d \in R : RidingSlug(d) = slugify(name)}
    IN  IF found = {} THEN NoRiding ELSE CHOOSE d \in found : TRUE

\* RidingManager.get_by_name when the ridings R are on record; NoRiding
\* stands for Riding.DoesNotExist
RidingLookup(R, name) ==
    LET slug == slugify(name)
        fixed == IF slug \in DOMAIN FIX_RIDING THEN FIX_RIDING[slug] ELSE slug
        found == {d \in R : RidingSlug(d) = fixed}
    IN  IF found = {} THEN NoRiding ELSE CHOOSE d \in found : TRUE

\* RidingManager.get_by_name with the ridings of the members on record
RidingGetByName(name) == RidingLookup(Ridings, name)

-----------------------------------------------------------------------------
(* The ourcommons.ca directory.  A URL is a sequence of path pieces and     *)
(* single characters; a response is what the site answers to the profile   *)
(* request and to the request of the XML document.                          *)

u_Members == "https://www.ourcommons.ca/Members/en"
u_Search == "https://www.ourcommons.ca/Search"

RECURSIVE int(_)
int(s) ==
    IF s = <<>> THEN 0
    ELSE 10 * int(SubSeq(s, 1, Len(s) - 1)) +
         (CHOOSE d \in 0..9 : DigitChar(d) = s[Len(s)])

\* re.search(r'\((\d+)\)$', url): the digits of a closing "(digits)", or <<>>
url_match(url) ==
    LET n == Len(url)
        opens == {i \in 1..n : url[i] = "("}
        open == IF opens = {} THEN 0 ELSE CHOOSE i \in opens : \A j \in opens : j <= i
        digits == SubSeq(url, open + 1, n - 1)
    IN  IF /\ n >= 3 /\ url[n] = ")" /\ open > 0 /\ digits # <<>>
           /\ \A j \in 1..Len(digits) : digits[j] \in AsciiDigit
        THEN digits
        ELSE <<>>

\* a test that takes every URL for the landing page
endswith_Members_en_Any(url) == TRUE

\* url.endswith('Members/en')
endswith_Members_en(url) == url # <<>> /\ url[Len(url)] = u_Members

\* an exception raised before get_by_name is called: http counts the
\* requests made, names the calls of get_by_name
DiscoveryFailure(exc, http, I) ==
    [exc |-> exc, pol |-> None, mp_id |-> None, http |-> http, names |-> 0, info |-> I]

\* an exception raised after _get_pol_from_ourcommons_url has returned found
Failed(found, exc, I) ==
    [found EXCEPT !.exc = exc, !.pol = None, !.mp_id = None, !.info = I]

\* the end of _get_pol_from_ourcommons_url: what get_by_name gave, with the
\* person ID of the URL
Resolved(pol, mp_id) ==
    IF pol.exc # "ok"
    THEN [exc |-> pol.exc, pol |-> None, mp_id |-> None, http |-> 2, names |-> 1,
          info |-> pol.info]
    ELSE [exc |-> "ok", pol |-> pol.pol, mp_id |-> mp_id, http |-> 2, names |-> 1,
          info |-> pol.info]

\* a check of the document's riding alone
RidingCheck_NoExpected(riding, riding_name) ==
    IF riding = NoRiding THEN "DoesNotExist" ELSE "ok"

\* the checks of the riding: riding is the one of the document (NoRiding
\* when Riding.DoesNotExist was raised), riding_name the caller's
RidingCheck(riding, riding_name) ==
    IF riding = NoRiding THEN "DoesNotExist"
    ELSE IF riding_name # NoName /\ RidingGetByName(riding_name) = NoRiding
    THEN "Riding.DoesNotExist"
    ELSE IF riding_name # NoName /\ riding # RidingGetByName(riding_name)
    THEN "Exception"
    ELSE "ok"

\* _get_pol_from_ourcommons_url once the profile request has succeeded:
\* digits is what the URL pattern matched, riding the riding of the document
FromProfile(P, M, I, resp, session, riding_name, digits, riding) ==
    IF digits = <<>>
    THEN IF endswith_Members_en(resp.url) THEN DiscoveryFailure("DoesNotExist", 1, I)
         ELSE DiscoveryFailure("Exception", 1, I)
    ELSE IF resp.xml_status >= 400 THEN DiscoveryFailure("HTTPError", 2, I)
    ELSE IF RidingCheck(riding, riding_name) # "ok"
    THEN DiscoveryFailure(RidingCheck(riding, riding_name), 2, I)
    ELSE Resolved(GetByName(P, M, I, resp.first \o <<" ">> \o resp.last, session, riding,
                            FALSE, None, TRUE, FALSE),
                  int(digits))

\* _get_pol_from_ourcommons_url without raise_for_status
GetPolFromOurcommonsUrl_NoRaise(P, M, I, resp, session, riding_name) ==
    FromProfile(P, M, I, resp, session, riding_name, url_match(resp.url),
                RidingGetByName(resp.riding))

\* PoliticianManager._get_pol_from_ourcommons_url
GetPolFromOurcommonsUrl(P, M, I, resp, session, riding_name) ==
    IF resp.status >= 400 THEN DiscoveryFailure("DoesNotExist", 1, I)
    ELSE FromProfile(P, M, I, resp, session, riding_name, url_match(resp.url),
                     RidingGetByName(resp.riding))

\* a lookup that never finds the row
FastPath_Miss(I, schema, parlid) == [exc |-> "PoliticianInfo.DoesNotExist", pol |-> None]

\* PoliticianInfo.sr_objects.get(schema=..., value=unicode(parlid))
FastPath(I, schema, parlid) ==
    LET rows == InfoByValue(I, schema, unicode(parlid))
    IN  IF Rows(rows) = 0 THEN [exc |-> "PoliticianInfo.DoesNotExist", pol |-> None]
        ELSE IF Rows(rows) > 1 THEN [exc |-> "MultipleObjectsReturned", pol |-> None]
        ELSE [exc |-> "ok", pol |-> (CHOOSE r \in DOMAIN rows : TRUE).politician]

FastHit(fast, I) ==
    [exc |-> "ok", pol |-> fast.pol, mp_id |-> None, http |-> 0, names |-> 0, info |-> I]

\* the result of a discovery whose row has been written by the call set
Bound(found, set) ==
    IF set.exc # "ok" THEN Failed(found, set.exc, set.info)
    ELSE [found EXCEPT !.info = set.info]

\* get_by_parl_mp_id after the fast path has missed
MpIdFound(found, parlid) ==
    IF found.exc # "ok" THEN found
    ELSE IF parlid # found.mp_id THEN Failed(found, "Exception", found.info)
    ELSE Bound(found, SetInfo(found.info, found.pol, "parl_mp_id", unicode(parlid), FALSE))

MpIdLookup(fast, found, I, parlid) ==
    IF fast.exc = "ok" THEN FastHit(fast, I)
    ELSE IF fast.exc = "MultipleObjectsReturned" THEN DiscoveryFailure(fast.exc, 0, I)
    ELSE MpIdFound(found, parlid)

\* PoliticianManager.get_by_parl_mp_id
GetByParlMpId(P, M, I, parlid, resp, session, riding_name) ==
    MpIdLookup(FastPath(I, "parl_mp_id", parlid),
               GetPolFromOurcommonsUrl(P, M, I, resp, session, riding_name), I, parlid)

\* get_by_parl_affil_id once the person ID has been checked or recorded
AffilBound(found, set, parlid) ==
    IF set.exc # "ok" THEN Failed(found, set.exc, set.info)
    ELSE Bound(found, SetInfoMultivalued(set.info, found.pol, "parl_affil_id", unicode(parlid)))

\* a get_by_parl_affil_id that records the person ID whether or not it is
\* on record
AffilPerson_AlwaysSet(found, mpid_info, parlid) ==
    IF mpid_info.exc = "MultipleObjectsReturned"
    THEN Failed(found, mpid_info.exc, found.info)
    ELSE IF mpid_info.exc = "ok" /\ mpid_info.pol # found.pol
    THEN Failed(found, "Exception", found.info)
    ELSE AffilBound(found,
                    SetInfo(found.info, found.pol, "parl_mp_id", unicode(found.mp_id), FALSE),
                    parlid)

\* a get_by_parl_affil_id that does not compare the owner of the person ID
AffilPerson_NoCheck(found, mpid_info, parlid) ==
    IF mpid_info.exc = "MultipleObjectsReturned"
    THEN Failed(found, mpid_info.exc, found.info)
    ELSE AffilBound(found,
                    IF mpid_info.exc = "ok" THEN [exc |-> "ok", info |-> found.info]
                    ELSE SetInfo(found.info, found.pol, "parl_mp_id", unicode(found.mp_id), FALSE),
                    parlid)

\* get_by_parl_affil_id: mpid_info is the row of the person ID, if any
AffilPerson(found, mpid_info, parlid) ==
    IF mpid_info.exc = "MultipleObjectsReturned"
    THEN Failed(found, mpid_info.exc, found.info)
    ELSE IF mpid_info.exc = "ok" /\ mpid_info.pol # found.pol
    THEN Failed(found, "Exception", found.info)
    ELSE AffilBound(found,
                    IF mpid_info.exc = "ok" THEN [exc |-> "ok", info |-> found.info]
                    ELSE SetInfo(found.info, found.pol, "parl_mp_id", unicode(found.mp_id), FALSE),
                    parlid)

AffilFound(found, parlid) ==
    IF found.exc # "ok" THEN found
    ELSE AffilPerson(found, FastPath(found.info, "parl_mp_id", found.mp_id), parlid)

AffilLookup(fast, found, I, parlid) ==
    IF fast.exc = "ok" THEN FastHit(fast, I)
    ELSE IF fast.exc = "MultipleObjectsReturned" THEN DiscoveryFailure(fast.exc, 0, I)
    ELSE AffilFound(found, parlid)

\* PoliticianManager.get_by_parl_affil_id
GetByParlAffilId(P, M, I, parlid, resp, session, riding_name) ==
    AffilLookup(FastPath(I, "parl_affil_id", parlid),
                GetPolFromOurcommonsUrl(P, M, I, resp, session, riding_name), I, parlid)

-----------------------------------------------------------------------------
(* Inputs *)

s_jo_day == <<" ", "j", "ó", " ", " ", "d", "a", "y", " ">>
s_AlRoy == <<"A", "l", " ", "R", "o", "y">>

\* names callers ask for: the two display names, a differently written
\* "Jo Day" and a name nobody bears
NameInputs == {s_JoDay, s_jo_day, s_AlRoy}

SessionSets == {{"S1"}, {"S2"}, {"S1", "S2"}}

MemberRows ==
    [politician : PolIds, riding : Ridings, party : PartyIds, sessions : SessionSets]

NoCall == [op |-> "none"]

-----------------------------------------------------------------------------
(* Sequential calls.  A call leaves its arguments and its outcome in last;  *)
(* the caller takes them (Return) before the next call is made.             *)

Return ==
    /\ last # NoCall
    /\ last' = NoCall
    /\ UNCHANGED <<politicians, parties, members, info, xref, pc, loc>>

\* ElectedMember(...).save() by the ingestion outside the engine
IngestMember(m) ==
    /\ last = NoCall
    /\ Cardinality(members) < MaxMembers
    /\ m \notin members
    /\ m.politician \in politicians
    /\ m.party \in parties
    /\ members' = members \cup {m}
    /\ last' = NoCall
    /\ UNCHANGED <<politicians, parties, info, xref, pc, loc>>

\* Politician.save
CallPoliticianSave(p) ==
    LET r == PoliticianSave(info, p)
    IN  /\ last = NoCall
        /\ politicians' = politicians \cup {p}
        /\ info' = r.info
        /\ last' = [op |-> "Politician.save", pol |-> p, exc |-> r.exc]
        /\ UNCHANGED <<parties, members, xref, pc, loc>>

\* PoliticianManager.get_by_name
CallGetByName(name, session, riding, election, party, saveAlternate, strictMatch) ==
    LET r == GetByName(politicians, members, info, name, session, riding, election,
                       party, saveAlternate, strictMatch)
    IN  /\ last = NoCall
        /\ info' = r.info
        /\ last' = [op |-> "get_by_name", name |-> name, session |-> session,
                    riding |-> riding, election |-> election, party |-> party,
                    saveAlternate |-> saveAlternate, strictMatch |-> strictMatch,
                    exc |-> r.exc, pol |-> r.pol, stage |-> r.stage]
        /\ UNCHANGED <<politicians, parties, members, xref, pc, loc>>

\* Party.save
CallPartySave(t) ==
    /\ last = NoCall
    /\ parties' = parties \cup {t}
    /\ \E r \in PartySave(xref, t) :
        /\ xref' = r.xref
        /\ last' = [op |-> "Party.save", party |-> t, exc |-> r.exc]
    /\ UNCHANGED <<politicians, members, info, pc, loc>>

\* Party.add_alternate_name on a saved party
CallPartyAddAlternateName(t, name) ==
    /\ last = NoCall
    /\ t \in parties
    /\ \E r \in PartyAddAlternateName(xref, t, name) :
        /\ xref' = r.xref
        /\ last' = [op |-> "Party.add_alternate_name", party |-> t, name |-> name,
                    had |-> CopiesIn(XrefRow("party_names", lower(strip(name)), t), xref),
                    exc |-> r.exc]
    /\ UNCHANGED <<politicians, parties, members, info, pc, loc>>

\* Party.delete
CallPartyDelete(t) ==
    /\ last = NoCall
    /\ t \in parties
    /\ xref' = PartyDeleteXref(xref, t)
    /\ parties' = parties \ {t}
    /\ members' = PartyDeleteMembers(members, t)
    /\ last' = [op |-> "Party.delete", party |-> t,
                had |-> Rows(FilterBag(xref, LAMBDA r : r.target_id = t)), exc |-> "ok"]
    /\ UNCHANGED <<politicians, info, pc, loc>>

\* PartyManager.get_by_name
CallPartyGetByName(name) ==
    /\ last = NoCall
    /\ \E r \in PartyGetByName(xref, parties, name) :
        last' = [op |-> "Party.get_by_name", name |-> name, exc |-> r.exc,
                 party |-> r.party]
    /\ UNCHANGED <<politicians, parties, members, info, xref, pc, loc>>

\* Politician.add_alternate_name on a saved politician
CallAddAlternateName(p, name) ==
    LET r == AddAlternateName(info, p, name)
    IN  /\ last = NoCall
        /\ p \in politicians
        /\ info' = r.info
        /\ last' = [op |-> "Politician.add_alternate_name", pol |-> p, name |-> name,
                    had |-> CopiesIn(InfoRow(p, "alternate_name", normalizeName(name)), info),
                    exc |-> r.exc]
        /\ UNCHANGED <<politicians, parties, members, xref, pc, loc>>

\* Politician.set_info_multivalued on a saved politician
CallSetInfoMultivalued(p, key, value) ==
    LET r == SetInfoMultivalued(info, p, key, unicode(value))
    IN  /\ last = NoCall
        /\ p \in politicians
        /\ info' = r.info
        /\ last' = [op |-> "Politician.set_info_multivalued", pol |-> p, key |-> key,
                    value |-> value,
                    had |-> CopiesIn(InfoRow(p, key, unicode(value)), info),
                    exc |-> r.exc]
        /\ UNCHANGED <<politicians, parties, members, xref, pc, loc>>

\* PoliticianManager.get_by_parl_mp_id, the directory answering resp
CallGetByParlMpId(parlid, resp, session, riding_name) ==
    LET r == GetByParlMpId(politicians, members, info, parlid, resp, session, riding_name)
    IN  /\ last = NoCall
        /\ info' = r.info
        /\ last' = [op |-> "get_by_parl_mp_id", parlid |-> parlid, resp |-> resp,
                    session |-> session, riding_name |-> riding_name,
                    known |-> FastPath(info, "parl_mp_id", parlid),
                    exc |-> r.exc, pol |-> r.pol, http |-> r.http, names |-> r.names]
        /\ UNCHANGED <<politicians, parties, members, xref, pc, loc>>

\* PoliticianManager.get_by_parl_affil_id, the directory answering resp
CallGetByParlAffilId(parlid, resp, session, riding_name) ==
    LET r == GetByParlAffilId(politicians, members, info, parlid, resp, session, riding_name)
    IN  /\ last = NoCall
        /\ info' = r.info
        /\ last' = [op |-> "get_by_parl_affil_id", parlid |-> parlid, resp |-> resp,
                    session |-> session, riding_name |-> riding_name,
                    known |-> FastPath(info, "parl_affil_id", parlid),
                    exc |-> r.exc, pol |-> r.pol, http |-> r.http, names |-> r.names]
        /\ UNCHANGED <<politicians, parties, members, xref, pc, loc>>

-----------------------------------------------------------------------------
(* The resolver on its own: politicians are saved, memberships ingested and  *)
(* names resolved; both parties are on record from the start.               *)

XrefOfSavedParties ==
    SetToBag({XrefRow("party_names", lower(strip(PartyNameEn(1))), 1),
              XrefRow("party_names", lower(strip(PartyNameEn(2))), 2),
              XrefRow("party_names", lower(strip(PartyNameFr(2))), 2)})

InitResolve ==
    /\ politicians = {}
    /\ parties = PartyIds
    /\ members = {}
    /\ info = EmptyBag
    /\ xref = XrefOfSavedParties
    /\ last = NoCall
    /\ pc = <<>>
    /\ loc = <<>>

NextResolve ==
    \/ Return
    \/ \E p \in PolIds : CallPoliticianSave(p)
    \/ \E m \in MemberRows : IngestMember(m)
    \/ \E name \in NameInputs, session \in {NoSession, "S1"}, riding \in {NoRiding, "D1"},
          election \in BOOLEAN, party \in {None, 1},
          saveAlternate \in BOOLEAN, strictMatch \in BOOLEAN :
            CallGetByName(name, session, riding, election, party, saveAlternate, strictMatch)

SpecResolve == InitResolve /\ [][NextResolve]_vars

-----------------------------------------------------------------------------
(* Claims about get_by_name, checked under SpecResolve *)

IsGetByName == last.op = "get_by_name"

\* the politicians that have the normalized form of name among their
\* alternate names
Bearers(I, name) == {p \in PolIds : normalizeName(name) \in alternate_names(I, p)}

SomeCriteria == last.session # NoSession \/ last.riding # NoRiding \/ last.party # None

\* C1 (disambiguation precision): when get_by_name(name, session=S, riding=D)
\* is called in a store where A and at least one other politician have the
\* normalized name among their alternate names, A has a membership in riding
\* D that includes session S and no other bearer of the name has one, the
\* call returns A.
C1_DisambiguationPrecision ==
    [][(/\ last = NoCall
        /\ last'.op = "get_by_name"
        /\ last'.session # NoSession /\ last'.riding # NoRiding
        /\ last'.party = None /\ ~last'.election)
       => \A A \in Bearers(info, last'.name) :
            (/\ Bearers(info, last'.name) # {A}
             /\ MatchingMembers(members, A, last'.session, last'.riding, None) # {}
             /\ \A B \in Bearers(info, last'.name) \ {A} :
                    MatchingMembers(members, B, last'.session, last'.riding, None) = {})
            => last'.exc = "ok" /\ last'.pol = A]_vars

\* a call with session and riding returned one of two bearers of the name,
\* the other having no membership in that riding and session
C1_Witness ==
    /\ IsGetByName /\ last.exc = "ok" /\ last.stage = 2
    /\ last.session # NoSession /\ last.riding # NoRiding /\ last.party = None
    /\ \E B \in Bearers(info, last.name) \ {last.pol} :
           MatchingMembers(members, B, last.session, last.riding, None) = {}

\* C2 (ambiguity without context): when two or more politicians have the
\* normalized name among their alternate names, get_by_name(name) with no
\* session, riding or party raises Politician.MultipleObjectsReturned and
\* returns no politician.
C2_AmbiguityWithoutContext ==
    (/\ IsGetByName
     /\ ~SomeCriteria /\ ~last.election
     /\ Cardinality(Bearers(info, last.name)) >= 2)
    => last.exc = "MultipleObjectsReturned" /\ last.pol = None

C2_Witness ==
    /\ IsGetByName /\ ~SomeCriteria /\ ~last.election
    /\ Cardinality(Bearers(info, last.name)) >= 2
    /\ last.exc = "MultipleObjectsReturned"

\* C3 (context is always honoured): whenever get_by_name returns a
\* politician and a session, riding or party was given, one membership row of
\* that politician satisfies every criterion given.
C3_ContextHonoured ==
    (IsGetByName /\ last.exc = "ok" /\ SomeCriteria)
    => MatchingMembers(members, last.pol, last.session, last.riding, last.party) # {}

\* get_by_name(name) with no criteria, made in the state reached
NextLookup(saveAlternate, strictMatch) ==
    GetByName(politicians, members, info, last.name, NoSession, NoRiding, FALSE, None,
              saveAlternate, strictMatch)

ViaStage3Saved ==
    IsGetByName /\ last.exc = "ok" /\ last.stage = 3 /\ last.saveAlternate

\* C9 as claimed (self-healing alternates): after get_by_name has returned P
\* through the last-name fallback with saveAlternate on, the normalized name
\* is among P's alternate names and the next get_by_name(name) with no
\* context returns P through the alternate-name lookup.
C9_SelfHealing_Claimed ==
    ViaStage3Saved
    => /\ normalizeName(last.name) \in alternate_names(info, last.pol)
       /\ \A sa \in BOOLEAN, sm \in BOOLEAN :
            LET r == NextLookup(sa, sm)
            IN  r.exc = "ok" /\ r.pol = last.pol /\ r.stage = 1

\* C9 as amended: after get_by_name has returned P through the last-name
\* fallback with saveAlternate on, the normalized name is among P's alternate
\* names; the next get_by_name(name) with no context returns P through the
\* alternate-name lookup when the store holds one alternate-name row of that
\* normalized name, and raises Politician.MultipleObjectsReturned when it
\* holds more (another politician bore the name already).
C9_SelfHealing ==
    ViaStage3Saved
    => /\ normalizeName(last.name) \in alternate_names(info, last.pol)
       /\ \A sa \in BOOLEAN, sm \in BOOLEAN :
            LET r == NextLookup(sa, sm)
            IN  IF Rows(InfoByValue(info, "alternate_name", normalizeName(last.name))) = 1
                THEN r.exc = "ok" /\ r.pol = last.pol /\ r.stage = 1 /\ r.info = info
                ELSE r.exc = "MultipleObjectsReturned" /\ r.pol = None /\ r.info = info

\* the fallback has just given a politician a name it did not have
C9_Witness ==
    /\ ViaStage3Saved
    /\ Bearers(info, last.name) = {last.pol}
    /\ normalizeName(last.name) # normalizeName(PolName(last.pol))

-----------------------------------------------------------------------------
(* The cross-reference store on its own: parties and their aliases,          *)
(* politicians, their alternate names and multivalued rows.                  *)

s_lib_padded == <<" ", "l", "i", "b", " ">>
PartyNameInputs == {s_Lib, s_lib_padded, s_NPD}

AffilIds == {20, 21}

InitEmpty ==
    /\ politicians = {}
    /\ parties = {}
    /\ members = {}
    /\ info = EmptyBag
    /\ xref = EmptyBag
    /\ last = NoCall
    /\ pc = <<>>
    /\ loc = <<>>

NextStore ==
    \/ Return
    \/ \E t \in PartyIds : CallPartySave(t)
    \/ \E t \in PartyIds, name \in PartyNameInputs : CallPartyAddAlternateName(t, name)
    \/ \E t \in PartyIds : CallPartyDelete(t)
    \/ \E name \in PartyNameInputs : CallPartyGetByName(name)
    \/ \E p \in PolIds : CallPoliticianSave(p)
    \/ \E p \in PolIds, name \in NameInputs : CallAddAlternateName(p, name)
    \/ \E p \in PolIds, id \in AffilIds : CallSetInfoMultivalued(p, "parl_affil_id", id)

SpecStore == InitEmpty /\ [][NextStore]_vars

\* the parties an alias is mapped to
PartyTargets(X, key) == {r.target_id : r \in DOMAIN PartyNames(X, key)}

\* C4 (conflict detection): when an alias is mapped to party T1,
\* Party.add_alternate_name of that alias on another party raises an error,
\* adds and changes no row, and a lookup of the alias still returns T1 alone.
C4_ConflictDetection ==
    [][(last = NoCall /\ last'.op = "Party.add_alternate_name")
       => \A T1 \in PartyTargets(xref, lower(strip(last'.name))) \ {last'.party} :
            /\ last'.exc = "Exception"
            /\ xref' = xref
            /\ PartyTargets(xref', lower(strip(last'.name))) = {T1}
            /\ \A r \in PartyGetByName(xref', parties', last'.name) :
                   r.exc = "ok" /\ r.party = T1]_vars

C4_Witness ==
    /\ last.op = "Party.add_alternate_name"
    /\ last.exc = "Exception"
    /\ PartyTargets(xref, lower(strip(last.name))) # {}
    /\ last.party \notin PartyTargets(xref, lower(strip(last.name)))

\* C5 (idempotent insert): after an insert of (schema, key, target) that
\* succeeded, the store holds exactly one row for the triple, and the same
\* insert made again succeeds and leaves the store as it is.  On politicians
\* (add_alternate_name, set_info_multivalued) the first insert always
\* succeeds; a party alias is inserted unless another party holds it.
C5_IdempotentInsert ==
    /\ (last.op = "Party.add_alternate_name" /\ last.exc = "ok")
       => /\ CopiesIn(XrefRow("party_names", lower(strip(last.name)), last.party), xref) = 1
          /\ Rows(PartyNames(xref, lower(strip(last.name)))) = 1
          /\ \A r \in PartyAddAlternateName(xref, last.party, last.name) :
                 r.exc = "ok" /\ r.xref = xref
    /\ (last.op = "Party.add_alternate_name" /\ last.had >= 1) => last.exc = "ok"
    /\ last.op = "Politician.add_alternate_name"
       => /\ last.exc = "ok"
          /\ CopiesIn(InfoRow(last.pol, "alternate_name", normalizeName(last.name)), info) = 1
          /\ AddAlternateName(info, last.pol, last.name) = [exc |-> "ok", info |-> info]
    /\ last.op = "Politician.set_info_multivalued"
       => /\ last.exc = "ok"
          /\ CopiesIn(InfoRow(last.pol, last.key, unicode(last.value)), info) = 1
          /\ SetInfoMultivalued(info, last.pol, last.key, unicode(last.value))
               = [exc |-> "ok", info |-> info]

\* a party alias has been inserted a second time for the same party
C5_Witness ==
    /\ last.op = "Party.add_alternate_name"
    /\ last.had = 1
    /\ last.exc = "ok"
    /\ Rows(PartyNames(xref, lower(strip(last.name)))) = 1

-----------------------------------------------------------------------------
(* Discovery of external IDs: politicians and parties are on record,         *)
(* memberships are ingested and IDs are looked up.                           *)

PersonIds == {7, 12}

ProfileUrl(n) == <<u_Members, "/", "jo-day", "(">> \o unicode(n) \o <<")">>

s_Jo == <<"J", "o">>
s_Jon == <<"J", "o", "n">>

NoDocument == [xml_status |-> 404, first |-> <<>>, last |-> <<>>, riding |-> <<>>]

\* what the directory may answer: an HTTP error, the landing page, a URL of
\* another shape, or the profile of a person and then an error or a document
\* the directory is down
Down == [status |-> 404, url |-> <<>>] @@ NoDocument

Responses ==
    {Down,
     [status |-> 200, url |-> <<u_Members>>] @@ NoDocument,
     [status |-> 200, url |-> <<u_Search>>] @@ NoDocument}
    \cup {[status |-> 200, url |-> ProfileUrl(n)] @@ NoDocument : n \in PersonIds}
    \cup {[status |-> 200, url |-> ProfileUrl(n), xml_status |-> 200, first |-> f,
           last |-> s_Day, riding |-> d] :
             n \in PersonIds, f \in {s_Jo, s_Jon},
             d \in {n_RichmondArthabasca, n_MedicineHat, n_Nowhere}}

RidingNameInputs == {NoName, n_RichmondArthabaska}

\* memberships of the one session and party
MemberRowsExt ==
    [politician : PolIds, riding : Ridings, party : {1}, sessions : {{"S1"}}]

InfoOfSavedPoliticians ==
    SetToBag({InfoRow(p, "alternate_name", normalizeName(PolName(p))) : p \in PolIds})

InitExt ==
    /\ politicians = PolIds
    /\ parties = PartyIds
    /\ members = {}
    /\ info = InfoOfSavedPoliticians
    /\ xref = XrefOfSavedParties
    /\ last = NoCall
    /\ pc = <<>>
    /\ loc = <<>>

NextExt ==
    \/ Return
    \/ \E m \in MemberRowsExt : IngestMember(m)
    \/ \E parlid \in PersonIds, resp \in Responses, session \in {NoSession, "S1"},
          riding_name \in RidingNameInputs :
            CallGetByParlMpId(parlid, resp, session, riding_name)
    \/ \E parlid \in AffilIds, resp \in Responses, session \in {NoSession, "S1"},
          riding_name \in RidingNameInputs :
            CallGetByParlAffilId(parlid, resp, session, riding_name)

SpecExt == InitExt /\ [][NextExt]_vars

IsDiscovery(call) == call.op \in {"get_by_parl_mp_id", "get_by_parl_affil_id"}

\* what a call of op for parlid gives in a state
Discover(P, M, I, op, parlid, resp, session, riding_name) ==
    IF op = "get_by_parl_mp_id"
    THEN GetByParlMpId(P, M, I, parlid, resp, session, riding_name)
    ELSE GetByParlAffilId(P, M, I, parlid, resp, session, riding_name)

\* the call returned p, asked the directory nothing and wrote nothing
IsFast(r, I, p) == r.exc = "ok" /\ r.pol = p /\ r.http = 0 /\ r.info = I

\* every call of op for parlid is fast, when the directory is down and for
\* every other answer of the directory and every context
FastOnly(P, M, I, op, parlid, p) ==
    /\ IsFast(Discover(P, M, I, op, parlid, Down, NoSession, NoName), I, p)
    /\ \A resp \in Responses, session \in {NoSession, "S1"}, riding_name \in RidingNameInputs :
        IsFast(Discover(P, M, I, op, parlid, resp, session, riding_name), I, p)

\* the IDs of the namespace that op looks up
IdsOf(op) == IF op = "get_by_parl_mp_id" THEN PersonIds ELSE AffilIds

\* C10: once get_by_parl_mp_id or get_by_parl_affil_id has returned politician
\* P for an ID, every call with that ID in the state reached returns P without
\* an HTTP request, whatever the directory would answer, and this stays so
\* through every later step that writes to the store (ingestion and other
\* discoveries).
C10_FastPath ==
    [][/\ (IsDiscovery(last') /\ last'.exc = "ok")
            => FastOnly(politicians', members', info', last'.op, last'.parlid, last'.pol)
       /\ \/ UNCHANGED <<politicians, members, info>>
          \/ \A op \in {"get_by_parl_mp_id", "get_by_parl_affil_id"}, p \in PolIds :
                \A parlid \in IdsOf(op) :
                    FastOnly(politicians, members, info, op, parlid, p)
                        => FastOnly(politicians', members', info', op, parlid, p)]_vars

\* an ID discovered before is asked for again while the directory is down,
\* and the call returns the politician
C10_Witness ==
    /\ IsDiscovery(last)
    /\ last.known.exc = "ok"
    /\ last.resp.status = 404
    /\ last.exc = "ok" /\ last.pol = last.known.pol /\ last.http = 0

-----------------------------------------------------------------------------
(* The whole store under sequential use: every write operation of the        *)
(* engine, from an empty database.                                           *)

\* the directory is down, or shows the profile of a person of riding D1
ProfilesOfD1 ==
    {Down} \cup {[status |-> 200, url |-> ProfileUrl(n), xml_status |-> 200, first |-> f,
                  last |-> s_Day, riding |-> n_RichmondArthabasca] :
                    n \in PersonIds, f \in {s_Jo, s_Jon}}

Next ==
    \/ Return
    \/ \E t \in PartyIds : CallPartySave(t)
    \/ \E t \in PartyIds, name \in {s_Lib, s_NPD} : CallPartyAddAlternateName(t, name)
    \/ \E t \in PartyIds : CallPartyDelete(t)
    \/ \E p \in PolIds : CallPoliticianSave(p)
    \/ \E p \in PolIds : CallAddAlternateName(p, s_JoDay)
    \/ \E m \in MemberRowsExt : IngestMember(m)
    \/ \E riding \in {NoRiding, "D1"} :
            CallGetByName(s_JoDay, "S1", riding, FALSE, None, TRUE, FALSE)
    \/ \E parlid \in PersonIds, resp \in ProfilesOfD1 :
            CallGetByParlMpId(parlid, resp, "S1", NoName)
    \/ \E resp \in ProfilesOfD1 : CallGetByParlAffilId(20, resp, "S1", NoName)

Spec == InitEmpty /\ [][Next]_vars

\* the targets a key of a schema of InternalXref points to
XrefTargets(schema, key) ==
    {r.target_id : r \in {x \in DOMAIN xref : x.schema = schema /\ x.text_value = key}}

\* the politicians a value of a schema of PoliticianInfo belongs to
InfoTargets(schema, value) ==
    {r.politician : r \in DOMAIN InfoByValue(info, schema, value)}

XrefKeys(schema) == {x.text_value : x \in {r \in DOMAIN xref : r.schema = schema}}
InfoValues(schema) == {x.value : x \in {r \in DOMAIN info : r.schema = schema}}

OneTargetXref(schema) ==
    \A key \in XrefKeys(schema) : Cardinality(XrefTargets(schema, key)) = 1

OneTargetInfo(schema) ==
    \A value \in InfoValues(schema) : Cardinality(InfoTargets(schema, value)) = 1

\* C6 as claimed (one target per key): in every state the sequential write
\* operations reach, no party alias, politician alternate name, external
\* person ID or external affiliation ID is mapped to two different targets.
C6_OneTargetPerKey_Claimed ==
    /\ OneTargetXref("party_names")
    /\ OneTargetInfo("alternate_name")
    /\ OneTargetInfo("parl_mp_id")
    /\ OneTargetInfo("parl_affil_id")

\* C6 as amended: in every state the sequential write operations reach, no
\* party alias, external person ID or external affiliation ID is mapped to
\* two different targets; an alternate name may belong to several
\* politicians.
C6_OneTargetPerKey ==
    /\ OneTargetXref("party_names")
    /\ OneTargetInfo("parl_mp_id")
    /\ OneTargetInfo("parl_affil_id")

\* a discovery was refused because the person ID it found belongs to another
\* politician, in a store that holds a party alias and an affiliation ID
C6_Witness ==
    /\ last.op = "get_by_parl_affil_id" /\ last.exc = "Exception" /\ last.http = 2
    /\ XrefKeys("party_names") # {}
    /\ InfoValues("parl_mp_id") # {}
    /\ Cardinality(InfoTargets("alternate_name", normalizeName(s_JoDay))) = 2

-----------------------------------------------------------------------------
(* Two concurrent callers.  Each makes one call, which proceeds one database *)
(* query or one request to the directory at a time; pc is where a caller is  *)
(* and loc what it holds.  Parties, politicians and a membership of each in  *)
(* riding D1 and session S1 are on record.                                   *)

Procs == {"a", "b"}

s_Red == <<"R", "e", "d">>

\* the profile of person 7, under either first name
ProfilesOf7 ==
    {[status |-> 200, url |-> ProfileUrl(7), xml_status |-> 200, first |-> f,
      last |-> s_Day, riding |-> n_RichmondArthabasca] : f \in {s_Jo, s_Jon}}

Idle == [op |-> "none", party |-> None, name |-> NoName, parlid |-> None,
         resp |-> Down, session |-> NoSession, n |-> 0, first |-> None,
         found |-> None, pol |-> None, exc |-> "none"]

InitConc ==
    /\ politicians = PolIds
    /\ parties = PartyIds
    /\ members = {[politician |-> q, riding |-> "D1", party |-> 1, sessions |-> {"S1"}] :
                    q \in PolIds}
    /\ info = InfoOfSavedPoliticians
    /\ xref = XrefOfSavedParties
    /\ last = NoCall
    /\ pc = [q \in Procs |-> "idle"]
    /\ loc = [q \in Procs |-> Idle]

\* Party.add_alternate_name is called: name = name.strip().lower()
BeginPartyAddAlternateName(q, t, name) ==
    /\ pc[q] = "idle"
    /\ pc' = [pc EXCEPT ![q] = "alias_query"]
    /\ loc' = [loc EXCEPT ![q] = [Idle EXCEPT !.op = "Party.add_alternate_name",
                                               !.party = t, !.name = lower(strip(name))]]
    /\ UNCHANGED <<politicians, parties, members, info, xref, last>>

\* x = InternalXref.objects.filter(...); len(x) runs the query and keeps the
\* rows, of which x[0] is the one the database gave first
AliasQuery(q) ==
    /\ pc[q] = "alias_query"
    /\ LET x == PartyNames(xref, loc[q].name)
       IN  \E first \in IF Rows(x) = 0 THEN {None} ELSE {r.target_id : r \in DOMAIN x} :
              loc' = [loc EXCEPT ![q].n = Rows(x), ![q].first = first]
    /\ pc' = [pc EXCEPT ![q] = "alias_write"]
    /\ UNCHANGED <<politicians, parties, members, info, xref, last>>

\* the branch on len(x): the row is saved, or the target compared
AliasWrite(q) ==
    /\ pc[q] = "alias_write"
    /\ IF loc[q].n = 0
       THEN /\ xref' = AddRow(xref, XrefRow("party_names", loc[q].name, loc[q].party))
            /\ loc' = [loc EXCEPT ![q].exc = "ok"]
       ELSE /\ xref' = xref
            /\ loc' = [loc EXCEPT ![q].exc = IF loc[q].first # loc[q].party
                                              THEN "Exception" ELSE "ok"]
    /\ pc' = [pc EXCEPT ![q] = "done"]
    /\ UNCHANGED <<politicians, parties, members, info, last>>

\* get_by_parl_mp_id is called, and resp is what the directory will answer
BeginGetByParlMpId(q, parlid, resp, session) ==
    /\ pc[q] = "idle"
    /\ pc' = [pc EXCEPT ![q] = "mp_fast"]
    /\ loc' = [loc EXCEPT ![q] = [Idle EXCEPT !.op = "get_by_parl_mp_id", !.parlid = parlid,
                                               !.resp = resp, !.session = session]]
    /\ UNCHANGED <<politicians, parties, members, info, xref, last>>

\* PoliticianInfo.sr_objects.get(schema='parl_mp_id', value=unicode(parlid))
MpFast(q) ==
    /\ pc[q] = "mp_fast"
    /\ LET fast == FastPath(info, "parl_mp_id", loc[q].parlid)
       IN  IF fast.exc = "ok"
           THEN /\ loc' = [loc EXCEPT ![q].exc = "ok", ![q].pol = fast.pol]
                /\ pc' = [pc EXCEPT ![q] = "done"]
           ELSE IF fast.exc = "MultipleObjectsReturned"
           THEN /\ loc' = [loc EXCEPT ![q].exc = fast.exc]
                /\ pc' = [pc EXCEPT ![q] = "done"]
           ELSE /\ loc' = loc
                /\ pc' = [pc EXCEPT ![q] = "mp_fetch"]
    /\ UNCHANGED <<politicians, parties, members, info, xref, last>>

\* what MpFetch leaves: found is what _get_pol_from_ourcommons_url gave
Fetched(q, found) ==
    /\ info' = found.info
    /\ IF found.exc # "ok"
       THEN /\ loc' = [loc EXCEPT ![q].exc = found.exc]
            /\ pc' = [pc EXCEPT ![q] = "done"]
       ELSE IF loc[q].parlid # found.mp_id
       THEN /\ loc' = [loc EXCEPT ![q].exc = "Exception"]
            /\ pc' = [pc EXCEPT ![q] = "done"]
       ELSE /\ loc' = [loc EXCEPT ![q].found = found.pol]
            /\ pc' = [pc EXCEPT ![q] = "set_info_get"]

\* self._get_pol_from_ourcommons_url(...) and the comparison of the IDs
MpFetch(q) ==
    /\ pc[q] = "mp_fetch"
    /\ Fetched(q, GetPolFromOurcommonsUrl(politicians, members, info, loc[q].resp,
                                          loc[q].session, NoName))
    /\ UNCHANGED <<politicians, parties, members, xref, last>>

\* set_info: self.politicianinfo_set.get(schema=key), overwrite being False
SetInfoGet(q) ==
    /\ pc[q] = "set_info_get"
    /\ LET n == Rows(InfoOf(info, loc[q].found, "parl_mp_id"))
       IN  IF n = 1
           THEN /\ loc' = [loc EXCEPT ![q].exc = "ValueError"]
                /\ pc' = [pc EXCEPT ![q] = "done"]
           ELSE /\ loc' = [loc EXCEPT ![q].n = n]
                /\ pc' = [pc EXCEPT ![q] = "set_info_save"]
    /\ UNCHANGED <<politicians, parties, members, info, xref, last>>

\* set_info: the rows are deleted if there were several, info.save(), and
\* get_by_parl_mp_id returns the politician
SetInfoSave(q) ==
    /\ pc[q] = "set_info_save"
    /\ LET kept == IF loc[q].n > 1
                   THEN FilterBag(info, LAMBDA r : ~(r.politician = loc[q].found
                                                      /\ r.schema = "parl_mp_id"))
                   ELSE info
       IN  info' = AddRow(kept, InfoRow(loc[q].found, "parl_mp_id", unicode(loc[q].parlid)))
    /\ loc' = [loc EXCEPT ![q].exc = "ok", ![q].pol = loc[q].found]
    /\ pc' = [pc EXCEPT ![q] = "done"]
    /\ UNCHANGED <<politicians, parties, members, xref, last>>

NextConc ==
    \E q \in Procs :
        \/ \E t \in PartyIds, name \in {s_Red, s_lib_padded} :
                BeginPartyAddAlternateName(q, t, name)
        \/ AliasQuery(q)
        \/ AliasWrite(q)
        \/ \E resp \in ProfilesOf7 \cup {Down}, session \in {NoSession, "S1"} :
                BeginGetByParlMpId(q, 7, resp, session)
        \/ MpFast(q)
        \/ MpFetch(q)
        \/ SetInfoGet(q)
        \/ SetInfoSave(q)

SpecConc == InitConc /\ [][NextConc]_vars

\* C7 (atomic insert under concurrency): however two concurrent callers that
\* insert the same party alias or discover the same unseen person ID are
\* interleaved, the store never holds two rows for one (schema, key).
C7_AtomicInsert ==
    /\ \A key \in XrefKeys("party_names") : Rows(PartyNames(xref, key)) <= 1
    /\ \A value \in InfoValues("parl_mp_id") : Rows(InfoByValue(info, "parl_mp_id", value)) <= 1

\* both callers have finished get_by_parl_mp_id for the same ID, each after
\* the fast path had missed and the directory had led it to a politician
Raced(q, r) ==
    /\ q # r
    /\ pc[q] = "done" /\ pc[r] = "done"
    /\ loc[q].op = "get_by_parl_mp_id" /\ loc[r].op = "get_by_parl_mp_id"
    /\ loc[q].parlid = loc[r].parlid
    /\ loc[q].found # None /\ loc[r].found # None

\* C8 (race loser outcome): when two concurrent get_by_parl_mp_id calls have
\* raced to discover the same unseen person ID, neither has failed if both
\* resolved the same politician, no two of them have bound the ID to
\* different politicians, and every later get_by_parl_mp_id for the ID
\* succeeds by the fast path.
C8_RaceLoserOutcome ==
    \A q \in Procs, r \in Procs :
        Raced(q, r)
        => /\ loc[q].found = loc[r].found
                => loc[q].exc = "ok" /\ loc[r].exc = "ok" /\ loc[q].pol = loc[r].pol
           /\ loc[q].found # loc[r].found => loc[q].exc # "ok" \/ loc[r].exc # "ok"
           /\ \A resp \in ProfilesOf7 \cup {Down}, session \in {NoSession, "S1"} :
                IsFast(GetByParlMpId(politicians, members, info, loc[q].parlid, resp,
                                     session, NoName),
                       info, FastPath(info, "parl_mp_id", loc[q].parlid).pol)

-----------------------------------------------------------------------------
(* Failures of the discovery of external IDs, checked under SpecExt *)

\* a discovery is made for an ID the store does not hold
Discovers == last = NoCall /\ IsDiscovery(last') /\ last'.known.exc = "PoliticianInfo.DoesNotExist"

\* C11 (unknown external ID): when the ID is not in the store and the profile
\* request returns a non-success HTTP status, get_by_parl_mp_id and
\* get_by_parl_affil_id raise Politician.DoesNotExist, make no further
\* request, do not call get_by_name and write no row.
C11_UnknownExternalId ==
    [][(Discovers /\ last'.resp.status >= 400)
       => /\ last'.exc = "DoesNotExist" /\ last'.pol = None
          /\ last'.http = 1 /\ last'.names = 0
          /\ info' = info /\ xref' = xref]_vars

\* get_by_parl_affil_id for an ID not in the store has met a directory that
\* answers 404
C11_Witness ==
    /\ last.op = "get_by_parl_affil_id"
    /\ last.known.exc = "PoliticianInfo.DoesNotExist"
    /\ last.resp.status = 404
    /\ last.exc = "DoesNotExist" /\ last.http = 1

-----------------------------------------------------------------------------
(* The stages of get_by_name, checked under SpecResolve *)

\* get_by_name is called
Resolves == last = NoCall /\ last'.op = "get_by_name"

\* the call made gives a session, a riding or a party
GivesCriteria(call) ==
    call.session # NoSession \/ call.riding # NoRiding \/ call.party # None

\* the bearers of the name asked for that have a membership row matching
\* every criterion of the call
Candidates(I, M, call) ==
    {p \in Bearers(I, call.name) :
        MatchingMembers(M, p, call.session, call.riding, call.party) # {}}

\* C12 (Stage 2 ambiguity): when a session, riding or party is given and
\* more than one politician bearing the name has a membership matching all
\* the criteria given, get_by_name raises Politician.MultipleObjectsReturned
\* in Stage 2, and the last-name fallback is not run (nothing is saved).
C12_Stage2Ambiguity ==
    [][(/\ Resolves
        /\ GivesCriteria(last')
        /\ Cardinality(Candidates(info, members, last')) >= 2)
       => /\ last'.exc = "MultipleObjectsReturned" /\ last'.pol = None
          /\ last'.stage = 2
          /\ info' = info]_vars

\* two bearers of the name sit in the session asked for, and the call, which
\* would save an alternate name in the fallback, was refused
C12_Witness ==
    /\ IsGetByName /\ SomeCriteria
    /\ last.session # NoSession /\ last.saveAlternate /\ ~last.strictMatch
    /\ Cardinality(Candidates(info, members, last)) >= 2
    /\ last.exc = "MultipleObjectsReturned"

\* what the last-name fallback gives for the call, in a store
Fallback(P, M, I, call) ==
    Stage3(P, M, I, call.name, call.session, call.riding, call.saveAlternate,
           call.strictMatch)

\* the outcome the call recorded is r
Gave(call, r) == call.exc = r.exc /\ call.pol = r.pol /\ call.stage = r.stage

\* C13 (fall-through on failed verification): when the alternate-name lookup
\* finds candidates, a session, riding or party is given and no candidate has
\* a membership matching the criteria, get_by_name does not fail there: with
\* a session and strictMatch off its outcome and its write are those of the
\* last-name fallback, and otherwise it raises Politician.DoesNotExist and
\* writes nothing.
C13_FallThrough ==
    [][(/\ Resolves
        /\ GivesCriteria(last')
        /\ Bearers(info, last'.name) # {}
        /\ Candidates(info, members, last') = {})
       => IF last'.session # NoSession /\ ~last'.strictMatch
          THEN /\ Gave(last', Fallback(politicians, members, info, last'))
               /\ info' = Fallback(politicians, members, info, last').info
          ELSE /\ last'.exc = "DoesNotExist" /\ last'.pol = None
               /\ info' = info]_vars

\* a politician bears the name but has no membership matching the context,
\* and the call returned another politician through the last-name fallback
C13_Witness ==
    /\ IsGetByName /\ SomeCriteria
    /\ last.exc = "ok" /\ last.stage = 3
    /\ \E p \in Bearers(info, last.name) \ {last.pol} :
          MatchingMembers(members, p, last.session, last.riding, last.party) = {}

\* C14 (Stage 3 gating): when strictMatch is set or no session is given, the
\* last-name fallback is not run: no call returns through it, a call that
\* Stages 1 and 2 did not resolve (no politician bears the name, or criteria
\* are given and no bearer matches them) raises Politician.DoesNotExist, and
\* no alternate name is added.
C14_Stage3Gating ==
    [][(Resolves /\ (last'.strictMatch \/ last'.session = NoSession))
       => /\ last'.stage # 3
          /\ info' = info
          /\ (\/ Bearers(info, last'.name) = {}
              \/ GivesCriteria(last') /\ Candidates(info, members, last') = {})
                => last'.exc = "DoesNotExist" /\ last'.pol = None]_vars

\* a strict call with a session was not resolved although the fallback
\* would have found a politician and saved the name
C14_Witness ==
    /\ IsGetByName /\ last.strictMatch /\ last.session # NoSession /\ last.saveAlternate
    /\ last.exc = "DoesNotExist"
    /\ Stage3(politicians, members, info, last.name, last.session, last.riding,
              TRUE, FALSE).exc = "ok"

\* the politicians with the family name that closes the name asked for and
\* a membership row in the session of the call and, if one is given, in its
\* riding
Eligible(P, M, call) ==
    {p \in P : /\ PolFamily(p) = lastname_match(strip(call.name))
               /\ MatchingMembers(M, p, call.session, call.riding, None) # {}}

\* the call runs the last-name fallback: a session is given, strictMatch is
\* off and Stages 1 and 2 neither returned nor raised
EntersFallback ==
    /\ Resolves
    /\ last'.session # NoSession /\ ~last'.strictMatch
    /\ Candidates(info, members, last') = {}

\* C15 (Stage 3 outcomes): in the last-name fallback, a name with no trailing
\* family-name token raises Politician.DoesNotExist; otherwise, of the
\* politicians with that family name and a membership in the session (and in
\* the riding, if given), exactly one is returned, two or more with a riding
\* given raise an error that is not Politician.DoesNotExist, and none, or
\* two or more without a riding, raise Politician.DoesNotExist.
C15_Stage3Outcomes ==
    [][EntersFallback
       => LET found == Eligible(politicians, members, last')
          IN  IF lastname_match(strip(last'.name)) = <<>>
              THEN last'.exc = "DoesNotExist"
              ELSE IF Cardinality(found) = 1
              THEN last'.exc = "ok" /\ found = {last'.pol} /\ last'.stage = 3
              ELSE IF Cardinality(found) >= 2 /\ last'.riding # NoRiding
              THEN last'.exc = "Exception"
              ELSE last'.exc = "DoesNotExist"]_vars

\* the alternate-name row that self-healing writes for a call
HealedRow(call) == InfoRow(call.pol, "alternate_name", normalizeName(call.name))

\* C16 (resolve only writes through Stage 3 self-healing): a get_by_name call
\* changes the store only when it returns a politician P through the
\* last-name fallback with saveAlternate on, and then by adding the
\* normalized query as one alternate-name row of P and nothing else; in every
\* other case the store is unchanged, and politicians, memberships, parties
\* and party aliases are never modified.
C16_ResolveOnlyWritesThroughStage3 ==
    [][Resolves
       => /\ UNCHANGED <<politicians, members, parties, xref>>
          /\ \/ info' = info
             \/ /\ last'.exc = "ok" /\ last'.stage = 3 /\ last'.saveAlternate
                /\ CopiesIn(HealedRow(last'), info) = 0
                /\ info' = AddRow(info, HealedRow(last'))]_vars

\* with both politicians saved, a call resolved by the fallback with
\* saveAlternate on has left the query as one row of the politician returned,
\* next to the two rows of the saved names
C16_Witness ==
    /\ ViaStage3Saved
    /\ politicians = PolIds
    /\ CopiesIn(HealedRow(last), info) = 1
    /\ Rows(info) = 3

-----------------------------------------------------------------------------
(* The binding of external person IDs, checked under SpecExt *)

\* the rows of the two external ID namespaces
ExternalIdRows(I) == FilterBag(I, LAMBDA r : r.schema \in {"parl_mp_id", "parl_affil_id"})

\* each person ID is a row of one politician, each politician has one
\* person ID at most
PersonIdBinding(I) ==
    LET rows == FilterBag(I, LAMBDA r : r.schema = "parl_mp_id")
    IN  /\ \A r \in DOMAIN rows : rows[r] = 1
        /\ \A r1, r2 \in DOMAIN rows :
              (r1.value = r2.value \/ r1.politician = r2.politician) => r1 = r2

\* found, what the directory and get_by_name gave, names a person ID that is
\* a row of another politician
BoundToAnother(found, I) ==
    /\ found.exc = "ok"
    /\ \E r \in DOMAIN I : /\ r.schema = "parl_mp_id"
                           /\ r.value = unicode(found.mp_id)
                           /\ r.politician # found.pol

\* C17 (external person ID binding): in every state that sequential
\* get_by_parl_mp_id and get_by_parl_affil_id calls reach, each parl_mp_id
\* value is bound to at most one politician and each politician has at most
\* one parl_mp_id; a discovery whose directory answer names a person ID
\* already bound to a different politician raises an error and adds no
\* parl_mp_id or parl_affil_id row.
C17_PersonIdBinding ==
    [][/\ PersonIdBinding(info')
       /\ (Discovers /\ BoundToAnother(GetPolFromOurcommonsUrl(politicians, members, info,
                                           last'.resp, last'.session, last'.riding_name), info))
            => /\ last'.exc # "ok" /\ last'.pol = None
               /\ ExternalIdRows(info') = ExternalIdRows(info)]_vars

\* get_by_parl_affil_id for an unknown affiliation ID resolved the document
\* to a politician, found the person ID of the profile on record for another
\* politician and raised; the affiliation ID is still unknown
C17_Witness ==
    /\ last.op = "get_by_parl_affil_id"
    /\ last.known.exc = "PoliticianInfo.DoesNotExist"
    /\ last.exc = "Exception" /\ last.names = 1
    /\ InfoByValue(info, "parl_mp_id", url_match(last.resp.url)) # EmptyBag
    /\ InfoByValue(info, "parl_affil_id", unicode(last.parlid)) = EmptyBag

-----------------------------------------------------------------------------
(* The profile URL and the district of the document, checked under SpecExt *)

\* the profile request succeeded and its final URL does not end in a
\* parenthesised number
Redirected(resp) == resp.status < 400 /\ url_match(resp.url) = <<>>

\* C18 (redirect classification): when the ID is not in the store, the profile
\* request succeeds and the final URL does not end in a parenthesised number,
\* the call raises Politician.DoesNotExist if the URL ends with 'Members/en'
\* and a plain Exception otherwise; the XML document is not requested,
\* get_by_name is not called and no row is written.
C18_RedirectClassification ==
    [][(Discovers /\ Redirected(last'.resp))
       => /\ IF last'.resp.url[Len(last'.resp.url)] = u_Members
             THEN last'.exc = "DoesNotExist"
             ELSE last'.exc = "Exception"
          /\ last'.pol = None /\ last'.http = 1 /\ last'.names = 0
          /\ info' = info /\ xref' = xref]_vars

\* a discovery was redirected to a URL of an unknown shape and raised the
\* plain Exception after one request
C18_Witness ==
    /\ IsDiscovery(last)
    /\ last.known.exc = "PoliticianInfo.DoesNotExist"
    /\ last.resp.status = 200 /\ last.resp.url = <<u_Search>>
    /\ last.exc = "Exception" /\ last.http = 1

\* the profile request led to a profile and the document was fetched
Documented(resp) ==
    resp.status < 400 /\ url_match(resp.url) # <<>> /\ resp.xml_status < 400

\* the call raised exc after fetching the document, without calling
\* get_by_name and without writing
RaisedOnDistrict(exc) ==
    /\ last'.exc = exc /\ last'.pol = None
    /\ last'.http = 2 /\ last'.names = 0
    /\ info' = info /\ xref' = xref

\* C19 (district check in external discovery): when the document has been
\* fetched and its ConstituencyName resolves to no riding, the call raises
\* Politician.DoesNotExist; when it resolves and the caller's riding_name
\* resolves to a different riding, the call raises a plain Exception, which is
\* not Politician.DoesNotExist; in both cases get_by_name is not called.
C19_DistrictCheck ==
    [][(Discovers /\ Documented(last'.resp))
       => /\ RidingGetByName(last'.resp.riding) = NoRiding
                => RaisedOnDistrict("DoesNotExist")
          /\ (/\ RidingGetByName(last'.resp.riding) # NoRiding
              /\ last'.riding_name # NoName
              /\ RidingGetByName(last'.riding_name) \notin
                    {NoRiding, RidingGetByName(last'.resp.riding)})
                => RaisedOnDistrict("Exception")]_vars

\* the caller expected Richmond--Arthabaska, the document named Medicine Hat,
\* and the call raised the plain Exception after the two requests
C19_Witness ==
    /\ IsDiscovery(last)
    /\ last.known.exc = "PoliticianInfo.DoesNotExist"
    /\ last.riding_name = n_RichmondArthabaska
    /\ last.resp.xml_status = 200 /\ last.resp.riding = n_MedicineHat
    /\ last.exc = "Exception" /\ last.http = 2 /\ last.names = 0

-----------------------------------------------------------------------------
(* The riding resolver on its own: names are looked up against every table   *)
(* of ridings on record.                                                     *)

\* names asked for: the keys and the values of the table of corrections and
\* names as documents spell them
RidingQueries ==
    DOMAIN FIX_RIDING
    \cup {FIX_RIDING[k] : k \in DOMAIN FIX_RIDING}
    \cup {<<a, sep, b>> : a \in {"Richmond", "Richemond", "Medicine", "Medecine"},
                          sep \in {" ", "-", "--"},
                          b \in {"Arthabaska", "Arthabasca", "Arthabatca", "Hat"}}
    \cup {n_Nowhere}

\* Riding.objects.get_by_name(name) with the ridings R on record
CallRidingGetByName(R, name) ==
    /\ last = NoCall
    /\ last' = [op |-> "Riding.get_by_name", name |-> name, on_record |-> R,
                riding |-> RidingLookup(R, name)]
    /\ UNCHANGED <<politicians, parties, members, info, xref, pc, loc>>

NextRiding ==
    \/ Return
    \/ \E R \in SUBSET RidingTable, name \in RidingQueries : CallRidingGetByName(R, name)

SpecRiding == InitExt /\ [][NextRiding]_vars

IsRidingLookup == last.op = "Riding.get_by_name"

\* the riding of R that has the slug, NoRiding if there is none
BySlug(R, slug) ==
    IF \E d \in R : RidingSlug(d) = slug
    THEN CHOOSE d \in R : RidingSlug(d) = slug
    ELSE NoRiding

s_richmond_arthabaska == <<"richmond", "-", "arthabaska">>

\* C20 as claimed (district correction table): with the riding of slug
\* richmond-arthabaska on record, the names "Richmond--Arthabaska" and
\* "Richmond-Arthabatca" both resolve to it, and for every key k of the
\* correction table whose value is the slug of a riding on record a lookup
\* of k returns that riding.
C20_CorrectionTable_Claimed ==
    IsRidingLookup
    => /\ (/\ last.name \in {n_RichmondArthabaska, n_RichmondArthabatca}
           /\ BySlug(last.on_record, s_richmond_arthabaska) # NoRiding)
            => last.riding = BySlug(last.on_record, s_richmond_arthabaska)
       /\ (/\ last.name \in DOMAIN FIX_RIDING
           /\ BySlug(last.on_record, FIX_RIDING[last.name]) # NoRiding)
            => last.riding = BySlug(last.on_record, FIX_RIDING[last.name])

\* C20 as amended: a name whose slug is a key of the correction table
\* resolves to the riding on record whose slug is the table's value for it,
\* as the correctly spelled name does, and to none if there is no such
\* riding; a name whose slug is not a key is looked up under its own slug.
\* In particular "Richmond--Arthabaska" and "Richmond-Arthabasca" resolve to
\* the same riding, every key k resolves as the table's value for k, and
\* "Richmond-Arthabatca", which is not a key, never resolves to the riding of
\* slug richmond-arthabaska.
C20_CorrectionTable ==
    IsRidingLookup
    => /\ slugify(last.name) \in DOMAIN FIX_RIDING
            => last.riding = BySlug(last.on_record, FIX_RIDING[slugify(last.name)])
       /\ slugify(last.name) \notin DOMAIN FIX_RIDING
            => last.riding = BySlug(last.on_record, slugify(last.name))
       /\ last.name \in {n_RichmondArthabaska, n_RichmondArthabasca}
            => last.riding = BySlug(last.on_record, s_richmond_arthabaska)
       /\ last.name \in DOMAIN FIX_RIDING
            => last.riding = BySlug(last.on_record, FIX_RIDING[last.name])
       /\ last.name = n_RichmondArthabatca
            => \/ last.riding = NoRiding
               \/ RidingSlug(last.riding) # s_richmond_arthabaska

\* the misspelt "Richmond-Arthabasca" was looked up and resolved to the
\* riding of slug richmond-arthabaska
C20_Witness ==
    /\ IsRidingLookup
    /\ last.name = n_RichmondArthabasca
    /\ last.riding # NoRiding
    /\ RidingSlug(last.riding) = s_richmond_arthabaska

-----------------------------------------------------------------------------
(* The key/value rows of politicians on their own: both politicians are on   *)
(* record and rows are written by set_info and set_info_multivalued.         *)

InfoKeys == {"parl_mp_id", "parl_affil_id"}

\* Politician.set_info on a saved politician
CallSetInfo(p, key, value, overwrite) ==
    LET r == SetInfo(info, p, key, unicode(value), overwrite)
    IN  /\ last = NoCall
        /\ p \in politicians
        /\ info' = r.info
        /\ last' = [op |-> "Politician.set_info", pol |-> p, key |-> key,
                    value |-> value, overwrite |-> overwrite,
                    had |-> Rows(InfoOf(info, p, key)), exc |-> r.exc]
        /\ UNCHANGED <<politicians, parties, members, xref, pc, loc>>

NextInfo ==
    \/ Return
    \/ \E p \in PolIds, key \in InfoKeys, id \in PersonIds :
          CallSetInfoMultivalued(p, key, id)
    \/ \E p \in PolIds, key \in InfoKeys, id \in PersonIds, overwrite \in BOOLEAN :
          CallSetInfo(p, key, id, overwrite)

SpecInfo == InitExt /\ [][NextInfo]_vars

\* set_info is called without permission to overwrite on a politician that
\* has n rows for the key
SetsInfoNoOverwrite(n) ==
    /\ last = NoCall
    /\ last'.op = "Politician.set_info" /\ ~last'.overwrite
    /\ Rows(InfoOf(info, last'.pol, last'.key)) = n

\* C21 (single-valued info is overwritten only with permission): in every
\* store state, set_info(key, value, overwrite=False) on a politician that
\* has one or more rows for key raises an error and leaves that politician's
\* rows for key as they are.
C21_OverwriteOnlyWithPermission ==
    [][\A n \in 1..2 :
         SetsInfoNoOverwrite(n)
            => /\ last'.exc # "ok"
               /\ InfoOf(info', last'.pol, last'.key) = InfoOf(info, last'.pol, last'.key)]_vars

-----------------------------------------------------------------------------
(* Party.delete, checked under SpecStore *)

\* the party-alias rows of X with target t
AliasesOf(X, t) == FilterBag(X, LAMBDA r : r.schema = "party_names" /\ r.target_id = t)

\* C22 (cascade delete of aliases): in every state that sequential use of the
\* store reaches, after Party.delete on party T no party-alias row with
\* target T remains and PartyManager.get_by_name of every former alias of T
\* raises Party.DoesNotExist; the alias rows of every other party and the
\* rows of every other schema are as they were.
C22_CascadeDelete ==
    [][(last = NoCall /\ last'.op = "Party.delete")
       => /\ AliasesOf(xref', last'.party) = EmptyBag
          /\ \A r \in DOMAIN AliasesOf(xref, last'.party) :
                \A res \in PartyGetByName(xref', parties', r.text_value) :
                    res.exc = "Party.DoesNotExist"
          /\ \A r \in DOMAIN xref \cup DOMAIN xref' :
                ~(r.schema = "party_names" /\ r.target_id = last'.party)
                    => CopiesIn(r, xref') = CopiesIn(r, xref)
          /\ info' = info]_vars

\* a party with aliases was deleted while the other party has aliases and
\* politicians have rows
C22_Witness ==
    /\ last.op = "Party.delete" /\ last.had >= 2
    /\ AliasesOf(xref, last.party) = EmptyBag
    /\ xref # EmptyBag /\ info # EmptyBag

-----------------------------------------------------------------------------
(* Several affiliation IDs of one politician, checked under SpecExt *)

\* politician p holds the affiliation ID as one row
HoldsAffil(I, p, id) == CopiesIn(InfoRow(p, "parl_affil_id", unicode(id)), I) = 1

\* get_by_parl_affil_id discovers an ID for a politician, last'.pol, that
\* holds another affiliation ID from an earlier discovery
SecondAffiliation ==
    /\ Discovers
    /\ last'.op = "get_by_parl_affil_id" /\ last'.exc = "ok"
    /\ \E other \in AffilIds \ {last'.parlid} : HoldsAffil(info, last'.pol, other)

\* found names a politician and the person ID that the politician has on
\* record
OnRecord(found, I) ==
    /\ found.exc = "ok"
    /\ CopiesIn(InfoRow(found.pol, "parl_mp_id", unicode(found.mp_id)), I) = 1

\* C23 (multivalued affiliation IDs): when get_by_parl_affil_id succeeds for
\* an affiliation ID and returns a politician P that holds another
\* affiliation ID, P holds both IDs afterwards, has exactly one parl_mp_id
\* row, the one it had, and both IDs return P by the fast path; and a
\* discovery that resolves P with the person ID that P has on record does not
\* fail.
C23_MultivaluedAffiliation ==
    [][/\ SecondAffiliation
          => /\ \A id \in AffilIds :
                  /\ HoldsAffil(info', last'.pol, id)
                  /\ FastOnly(politicians', members', info', "get_by_parl_affil_id",
                              id, last'.pol)
             /\ Rows(InfoOf(info', last'.pol, "parl_mp_id")) = 1
             /\ InfoOf(info', last'.pol, "parl_mp_id") = InfoOf(info, last'.pol, "parl_mp_id")
       /\ (/\ Discovers /\ last'.op = "get_by_parl_affil_id"
           /\ OnRecord(GetPolFromOurcommonsUrl(politicians, members, info, last'.resp,
                                               last'.session, last'.riding_name), info))
          => last'.exc = "ok"]_vars

\* a second affiliation ID was discovered for a politician, who now holds the
\* two IDs and one person ID
C23_Witness ==
    /\ last.op = "get_by_parl_affil_id" /\ last.exc = "ok" /\ last.names = 1
    /\ last.known.exc = "PoliticianInfo.DoesNotExist"
    /\ \A id \in AffilIds : HoldsAffil(info, last.pol, id)
    /\ Rows(InfoOf(info, last.pol, "parl_mp_id")) = 1

-----------------------------------------------------------------------------
(* Failed discoveries, checked under SpecExt *)

\* C24 (failure atomicity of external discovery): whenever get_by_parl_mp_id
\* or get_by_parl_affil_id raises an error, the store is exactly as it was
\* before the call: no external-ID row and no alternate-name row has been
\* added.
C24_FailureAtomicity ==
    [][(last = NoCall /\ IsDiscovery(last') /\ last'.exc # "ok")
       => info' = info /\ xref' = xref]_vars

-----------------------------------------------------------------------------
(* The own name of a politician, checked under Spec *)

\* get_by_name(name) with no context, for either setting of saveAlternate
\* and strictMatch
ByNameAlone(name) ==
    {GetByName(politicians, members, info, name, NoSession, NoRiding, FALSE, None,
               saveAlternate, strictMatch) :
        saveAlternate \in BOOLEAN, strictMatch \in BOOLEAN}

\* C25 (own name is always an alias): in every state reached through
\* Politician.save and the other sequential writes, every saved politician P
\* has the normalized form of its display name among its alternate names,
\* exactly once, and get_by_name(P.name) with no context returns P or raises
\* Politician.MultipleObjectsReturned, never Politician.DoesNotExist.
C25_OwnNameIsAlias ==
    \A p \in politicians :
        /\ CopiesIn(InfoRow(p, "alternate_name", normalizeName(PolName(p))), info) = 1
        /\ \A r \in ByNameAlone(PolName(p)) :
              \/ r.exc = "ok" /\ r.pol = p
              \/ r.exc = "MultipleObjectsReturned"

\* both politicians are saved and have further rows; the name of one is
\* also an alternate name of the other, so that a lookup of it is ambiguous,
\* while the other's name resolves
C25_Witness ==
    /\ politicians = PolIds
    /\ Rows(InfoByValue(info, "alternate_name", normalizeName(s_JoDay))) = 2
    /\ \A r \in ByNameAlone(s_JoDay) : r.exc = "MultipleObjectsReturned"
    /\ \A r \in ByNameAlone(s_JonDay) : r.exc = "ok" /\ r.pol = 1

====
